---- MODULE Spec2Model ----
(***************************************************************************)
(* ConahGPT (src/app.py): the Slack events webhook, the background         *)
(* handle_mention thread, answer() and retrieve_top_chunks().              *)
(*                                                                         *)
(* Texts are sequences of tokens: a token is a word, a whitespace          *)
(* character or a Slack mention.  External collaborators (Drive listing,   *)
(* the document readers' retrieval, Gemini, chat_postMessage) are          *)
(* nondeterministic: their outcomes are drawn from the sets below.         *)
(***************************************************************************)
EXTENDS Integers, Sequences, FiniteSets, TLC

VARIABLES
    response,     \* the HTTP response of the last request to /slack/events
    lastReq,      \* the last request slack_events handled
    lastStarted,  \* index of the thread that request started, 0 if none
    threads,      \* the handle_mention threads started so far, in order
    orig,         \* per event: app_mention deliveries without a retry header
    rk            \* a direct call of retrieve_top_chunks or answer: arguments and result

vars == <<response, lastReq, lastStarted, threads, orig, rk>>

(***************************************************************************)
(* Bounds of the model.                                                    *)
(***************************************************************************)
MaxFiles == 2      \* longest listing the document store returns
MaxThreads == 2    \* handle_mention threads started in one behaviour
MaxTopK == 3       \* largest top_k a direct call passes

Range(s) == {s[i] : i \in DOMAIN s}

Min(a, b) == IF a < b THEN a ELSE b

(***************************************************************************)
(* Helpers: norm, toks, overlap.                                           *)
(***************************************************************************)
STOPWORDS ==
    {"a", "an", "and", "are", "as", "at", "be", "by", "for", "from", "has",
     "have", "if", "in", "into", "is", "it", "its", "of", "on", "or", "that",
     "the", "their", "to", "was", "were", "will", "with", "you", "your"}

\* the characters \s matches, and the no-break space norm replaces first
NBSP == "nbsp"
Whitespace == {" ", "\n", "\t"}

IsMention(tok) == tok \in {"<@U1>", "<@U2>"}

RECURSIVE CollapseWs(_)
\* re.sub(r"\s+", " ", t): every maximal run of whitespace becomes one space
CollapseWs(t) ==
    IF t = <<>> THEN <<>>
    ELSE IF Head(t) \in Whitespace
         THEN IF Len(t) > 1 /\ t[2] \in Whitespace
              THEN CollapseWs(Tail(t))
              ELSE <<" ">> \o CollapseWs(Tail(t))
         ELSE <<Head(t)>> \o CollapseWs(Tail(t))

RECURSIVE LStrip(_)
LStrip(t) ==
    IF t # <<>> /\ Head(t) \in Whitespace \cup {NBSP} THEN LStrip(Tail(t)) ELSE t

RECURSIVE RStrip(_)
RStrip(t) ==
    IF t # <<>> /\ t[Len(t)] \in Whitespace \cup {NBSP}
    THEN RStrip(SubSeq(t, 1, Len(t) - 1))
    ELSE t

\* str.strip()
Strip(t) == RStrip(LStrip(t))

norm(t) ==
    LET t1 == [i \in DOMAIN t |-> IF t[i] = NBSP THEN " " ELSE t[i]]
    IN  Strip(CollapseWs(t1))

\* str.lower() followed by the punctuation-to-space translation and split(),
\* on the words of the model's vocabulary
LowerSplit(w) ==
    CASE w = "When" -> <<"when">>
      [] w = "What" -> <<"what">>
      [] w = "Claims" -> <<"claims">>
      [] w = "deadline?" -> <<"deadline">>
      [] w = "France?" -> <<"france">>
      [] w = "The" -> <<"the">>
      [] w = "Holiday" -> <<"holiday">>
      [] w = "Rates" -> <<"rates">>
      [] w = "Question:" -> <<"question">>
      [] w = "Answer:" -> <<"answer">>
      [] w = "<@U1>" -> <<"u1">>
      [] w = "<@U2>" -> <<"u2">>
      [] w \in Whitespace \cup {NBSP} -> <<>>
      [] OTHER -> <<w>>

RECURSIVE SplitAll(_)
SplitAll(s) == IF s = <<>> THEN <<>> ELSE LowerSplit(Head(s)) \o SplitAll(Tail(s))

NotStopword(w) == w \notin STOPWORDS

toks(s) == SelectSeq(SplitAll(s), NotStopword)

overlap(query_tokens, text) ==
    Cardinality(Range(query_tokens) \cap Range(toks(text)))

(***************************************************************************)
(* The document store: three files and the chunks their readers yield      *)
(* when nothing fails.  textLen and nameLen are lengths in characters.     *)
(***************************************************************************)
MIME_DOC == "application/vnd.google-apps.document"
MIME_SHEET == "application/vnd.google-apps.spreadsheet"
MIME_PDF == "application/pdf"

FileD1 == [id |-> "d1", name |-> <<"Claims", "policy">>, nameLen |-> 13,
           mimeType |-> MIME_DOC]
FileP1 == [id |-> "p1", name |-> <<"Claims", "calendar">>, nameLen |-> 15,
           mimeType |-> MIME_PDF]
FileS1 == [id |-> "s1", name |-> <<"claims", "deadline", "Rates">>, nameLen |-> 21,
           mimeType |-> MIME_SHEET]

DriveFiles == {FileD1, FileP1, FileS1}

GdocChunk(file_id, name, nameLen, section, text, textLen) ==
    [file_id |-> file_id, file_name |-> name, nameLen |-> nameLen, mime |-> "gdoc",
     link |-> <<"https://docs.google.com/document/d/", file_id, "/edit">>,
     meta |-> [key |-> "section", val |-> section],
     text |-> text, textLen |-> textLen]

PdfChunk(file_id, name, nameLen, page_num, text, textLen) ==
    [file_id |-> file_id, file_name |-> name, nameLen |-> nameLen, mime |-> "pdf",
     link |-> <<"https://drive.google.com/file/d/", file_id, "/preview#page=",
                ToString(page_num)>>,
     meta |-> [key |-> "page", val |-> ToString(page_num)],
     text |-> text, textLen |-> textLen]

SheetChunk(file_id, name, nameLen, idx, text, textLen) ==
    [file_id |-> file_id, file_name |-> name, nameLen |-> nameLen, mime |-> "gsheet",
     link |-> <<"https://docs.google.com/spreadsheets/d/", file_id, "/edit">>,
     meta |-> [key |-> "block", val |-> ToString(idx)],
     text |-> text, textLen |-> textLen]

\* what iter_gdoc_chunks yields for a document read to its end
iter_gdoc_chunks(file_id, name, nameLen) ==
    IF file_id = "d1"
    THEN << GdocChunk(file_id, name, nameLen, "General",
                      <<"The", "claims", "deadline", "is", "the", "15th">>, 30),
            GdocChunk(file_id, name, nameLen, "Leave",
                      <<"Holiday", "policy">>, 5000),
            GdocChunk(file_id, name, nameLen, "Leave",
                      <<"Question:", "When", "is", "the", "claims", "deadline?",
                        "Answer:", "15th">>, 3000) >>
    ELSE <<>>

\* what iter_pdf_chunks yields for a PDF read to its end
iter_pdf_chunks(file_id, name, nameLen) ==
    IF file_id = "p1"
    THEN << PdfChunk(file_id, name, nameLen, 1, <<"Holiday", "calendar">>, 7990),
            PdfChunk(file_id, name, nameLen, 2, <<"claims", "calendar">>, 100) >>
    ELSE <<>>

\* what iter_sheet_chunks yields for a sheet read to its end
iter_sheet_chunks(file_id, name, nameLen) ==
    IF file_id = "s1"
    THEN << SheetChunk(file_id, name, nameLen, 1, <<"deadline", "Rates">>, 2000) >>
    ELSE <<>>

\* the reader retrieve_top_chunks picks for a file by its MIME type
ReaderFor(f) ==
    CASE f.mimeType = MIME_DOC -> iter_gdoc_chunks(f.id, f.name, f.nameLen)
      [] f.mimeType = MIME_PDF -> iter_pdf_chunks(f.id, f.name, f.nameLen)
      [] f.mimeType = MIME_SHEET -> iter_sheet_chunks(f.id, f.name, f.nameLen)
      [] OTHER -> <<>>

\* A read stops at the first failure, inside the reader's try block: the
\* reader yields the chunks it produced before the failure and ends.
\* outcome n: the read fails after n chunks; n = the file's chunks: no failure.
ReadOutcomes(f) == 0 .. Len(ReaderFor(f))

ReadFile(f, outcome) == SubSeq(ReaderFor(f), 1, outcome)

ReadFailed(f, outcome) == outcome < Len(ReaderFor(f))

(***************************************************************************)
(* heapq on Python tuples.  A tuple is a sequence whose last element is    *)
(* the dict (a file or a chunk) and whose other elements are integers.     *)
(***************************************************************************)
RECURSIVE TupleCmp(_, _, _)
\* a < b on tuples of equal length: "lt", "ge", or "err" for the TypeError
\* of '<' between two dicts, reached when all integers before them are equal
TupleCmp(a, b, i) ==
    IF i > Len(a) THEN "ge"
    ELSE IF a[i] = b[i] THEN TupleCmp(a, b, i + 1)
    ELSE IF i = Len(a) THEN "err"
    ELSE IF a[i] < b[i] THEN "lt" ELSE "ge"

RECURSIVE SiftdownLoop(_, _, _, _)
SiftdownLoop(heap, startpos, pos, newitem) ==
    IF pos > startpos
    THEN LET parentpos == (pos - 1) \div 2
             parent == heap[parentpos + 1]
             c == TupleCmp(newitem, parent, 1)
         IN  IF c = "err" THEN [h |-> heap, err |-> TRUE]
             ELSE IF c = "lt"
                  THEN SiftdownLoop([heap EXCEPT ![pos + 1] = parent],
                                    startpos, parentpos, newitem)
                  ELSE [h |-> [heap EXCEPT ![pos + 1] = newitem], err |-> FALSE]
    ELSE [h |-> [heap EXCEPT ![pos + 1] = newitem], err |-> FALSE]

\* heapq._siftdown; positions are 0-based as in heapq, heap[pos + 1] is the item
siftdown(heap, startpos, pos) == SiftdownLoop(heap, startpos, pos, heap[pos + 1])

RECURSIVE SiftupLoop(_, _, _)
SiftupLoop(heap, pos, newitem) ==
    LET endpos == Len(heap)
        childpos == 2 * pos + 1
        rightpos == childpos + 1
    IN  IF childpos < endpos
        THEN LET c == IF rightpos < endpos
                      THEN TupleCmp(heap[childpos + 1], heap[rightpos + 1], 1)
                      ELSE "lt"
                 cp == IF c = "lt" THEN childpos ELSE rightpos
             IN  IF c = "err" THEN [h |-> heap, pos |-> pos, err |-> TRUE]
                 ELSE SiftupLoop([heap EXCEPT ![pos + 1] = heap[cp + 1]], cp, newitem)
        ELSE [h |-> [heap EXCEPT ![pos + 1] = newitem], pos |-> pos, err |-> FALSE]

\* heapq._siftup
siftup(heap, pos) ==
    LET r == SiftupLoop(heap, pos, heap[pos + 1])
    IN  IF r.err THEN [h |-> r.h, err |-> TRUE] ELSE siftdown(r.h, pos, r.pos)

RECURSIVE HeapifyFrom(_, _)
HeapifyFrom(x, i) ==
    IF i < 0 THEN [h |-> x, err |-> FALSE]
    ELSE LET r == siftup(x, i)
         IN  IF r.err THEN r ELSE HeapifyFrom(r.h, i - 1)

\* heapq.heapify: for i in reversed(range(n // 2)): _siftup(x, i)
heapify(x) == HeapifyFrom(x, (Len(x) \div 2) - 1)

\* heapq.heappop; the heap is not empty
heappop(heap) ==
    LET lastelt == heap[Len(heap)]
        rest == SubSeq(heap, 1, Len(heap) - 1)
    IN  IF rest = <<>>
        THEN [h |-> rest, item |-> lastelt, err |-> FALSE]
        ELSE LET r == siftup([rest EXCEPT ![1] = lastelt], 0)
             IN  [h |-> r.h, item |-> rest[1], err |-> r.err]

\* heapq.heappush
heappush(heap, item) == siftdown(Append(heap, item), 0, Len(heap))

\* heapq.heapreplace; the heap is not empty
heapreplace(heap, item) == siftup([heap EXCEPT ![1] = item], 0)

(***************************************************************************)
(* File listing.  A listing call of the document store either raises or    *)
(* returns a sequence of distinct files.                                   *)
(***************************************************************************)
RECURSIVE SeqsOver(_, _)
\* the sequences of at most n distinct elements of S
SeqsOver(S, n) ==
    IF n = 0 THEN {<<>>}
    ELSE LET shorter == SeqsOver(S, n - 1)
         IN  shorter \cup {Append(q, x) : q \in shorter, x \in S} 

Distinct(q) == \A i, j \in DOMAIN q : i # j => q[i] # q[j]

Listings == {q \in SeqsOver(DriveFiles, MaxFiles) : Distinct(q)}

NotCalled == [raises |-> FALSE, called |-> FALSE, files |-> <<>>]
Raises == [raises |-> TRUE, called |-> TRUE, files |-> <<>>]
Returns(files) == [raises |-> FALSE, called |-> TRUE, files |-> files]

\* env.shared is the outcome of list_in_shared_drive
list_in_shared_drive(env) == env.shared

\* env.folder is the outcome of list_in_folder_recursive
list_in_folder_recursive(env) == env.folder

list_files(env) ==
    LET first == list_in_shared_drive(env)
    IN  IF ~first.raises /\ first.files # <<>>
        THEN first.files
        ELSE LET second == list_in_folder_recursive(env)
             IN  IF second.raises THEN <<>> ELSE second.files

\* listing calls to the document store made by one list_files call
ListCalls(env) == IF env.folder.called THEN 2 ELSE 1

(***************************************************************************)
(* Retrieval (heap keeps top-k).                                           *)
(***************************************************************************)
CONTEXT_CAP == 8000

\* push(ch) that never replaces an entry of a full heap
push_keeps_first(st, ch, qtok, top_k) ==
    LET sc == overlap(qtok, ch.text)
        item == <<sc, st.tiebreak, ch>>
        heap == IF Len(st.heap) < top_k THEN heappush(st.heap, item).h ELSE st.heap
    IN  [heap |-> heap, tiebreak |-> st.tiebreak + 1, pushed |-> Append(st.pushed, ch)]

\* push(ch) that drops a chunk without overlap
push_skips_zero(st, ch, qtok, top_k) ==
    LET sc == overlap(qtok, ch.text)
        item == <<sc, st.tiebreak, ch>>
        heap == IF sc = 0 THEN st.heap
                ELSE IF Len(st.heap) < top_k
                     THEN heappush(st.heap, item).h
                     ELSE IF sc > st.heap[1][1]
                          THEN heapreplace(st.heap, item).h
                          ELSE st.heap
    IN  [heap |-> heap, tiebreak |-> st.tiebreak + 1, pushed |-> Append(st.pushed, ch)]

\* push(ch) of retrieve_top_chunks; st holds the nonlocal heap and tiebreak,
\* and the history of the chunks pushed
push(st, ch, qtok, top_k) ==
    LET sc0 == overlap(qtok, ch.text)
        sc == IF sc0 < 0 THEN 0 ELSE sc0
        item == <<sc, st.tiebreak, ch>>
        heap == IF Len(st.heap) < top_k
                THEN heappush(st.heap, item).h
                ELSE IF sc > st.heap[1][1]
                     THEN heapreplace(st.heap, item).h
                     ELSE st.heap
    IN  [heap |-> heap, tiebreak |-> st.tiebreak + 1, pushed |-> Append(st.pushed, ch)]

RECURSIVE PushEach(_, _, _, _)
\* for ch in gen: push(ch)
PushEach(st, chs, qtok, top_k) ==
    IF chs = <<>> THEN st
    ELSE PushEach(push(st, Head(chs), qtok, top_k), Tail(chs), qtok, top_k)

RECURSIVE ReadChosenAborts(_, _, _, _, _)
\* the loop over chosen, ended by the first read that fails
ReadChosenAborts(st, chosen, env, qtok, top_k) ==
    IF chosen = <<>> THEN st
    ELSE LET f == Head(chosen)
             got == ReadFile(f, env.reads[f.id])
         IN  IF ReadFailed(f, env.reads[f.id])
             THEN PushEach(st, got, qtok, top_k)
             ELSE ReadChosenAborts(PushEach(st, got, qtok, top_k), Tail(chosen), env,
                                   qtok, top_k)

RECURSIVE ReadChosen(_, _, _, _, _)
\* for f in chosen: push every chunk the file's reader yields
ReadChosen(st, chosen, env, qtok, top_k) ==
    IF chosen = <<>> THEN st
    ELSE LET f == Head(chosen)
             got == ReadFile(f, env.reads[f.id])
         IN  ReadChosen(PushEach(st, got, qtok, top_k), Tail(chosen), env, qtok, top_k)

RECURSIVE Fallback(_, _, _, _, _)
\* for f in chosen[:5]: push next(gen), the first chunk of a second read
Fallback(st, first5, env, qtok, top_k) ==
    IF first5 = <<>> THEN st
    ELSE LET f == Head(first5)
             got == ReadFile(f, env.again[f.id])
             st1 == IF got = <<>> THEN st ELSE push(st, got[1], qtok, top_k)
         IN  Fallback(st1, Tail(first5), env, qtok, top_k)

RECURSIVE PopChosen(_, _, _)
\* chosen = [heapq.heappop(scored)[1] for _ in range(n)]
PopChosen(scored, n, chosen) ==
    IF n = 0 THEN [chosen |-> chosen, err |-> FALSE]
    ELSE LET r == heappop(scored)
         IN  IF r.err THEN [chosen |-> chosen, err |-> TRUE]
             ELSE PopChosen(r.h, n - 1, Append(chosen, r.item[2]))

\* the quick prefilter by filename overlap
Prefilter(files, qtok, max_files) ==
    LET scored == [i \in DOMAIN files |-> <<0 - overlap(qtok, files[i].name), files[i]>>]
        hp == heapify(scored)
    IN  IF hp.err THEN [chosen |-> <<>>, err |-> TRUE]
        ELSE PopChosen(hp.h, Min(max_files, Len(scored)), <<>>)

\* x sorts before y under key (-x[0], x[1])
SortsBefore(x, y) == x[1] > y[1] \/ (x[1] = y[1] /\ x[2] <= y[2])

RECURSIVE SortedHeap(_)
\* sorted(heap, key=lambda x: (-x[0], x[1])); tiebreaks are distinct
SortedHeap(entries) ==
    IF entries = {} THEN <<>>
    ELSE LET first == CHOOSE x \in entries : \A y \in entries : SortsBefore(x, y)
         IN  <<first>> \o SortedHeap(entries \ {first})

\* len(f"Source: {ch['file_name']}\nContent: {ch['text']}\n")
PartLen(ch) == 8 + ch.nameLen + 10 + ch.textLen + 1

RECURSIVE BuildContextSkips(_, _, _)
\* the compact context with the part that would pass the cap skipped and the
\* loop continued
BuildContextSkips(top, total, ctx) ==
    IF top = <<>> THEN ctx
    ELSE IF total + PartLen(Head(top)) > CONTEXT_CAP
         THEN BuildContextSkips(Tail(top), total, ctx)
    ELSE BuildContextSkips(Tail(top), total + PartLen(Head(top)), Append(ctx, Head(top)))

RECURSIVE BuildContext(_, _, _)
\* the compact context: parts are added until one would pass the cap
BuildContext(top, total, ctx) ==
    IF top = <<>> THEN ctx
    ELSE IF total + PartLen(Head(top)) > CONTEXT_CAP THEN ctx
    ELSE BuildContext(Tail(top), total + PartLen(Head(top)), Append(ctx, Head(top)))

\* what a call of retrieve_top_chunks returns or raises, with its history:
\* context is the list ctx of the parts joined (a part is its chunk)
Retrieved(raised, context, chunks, files, chosen, pushed, env) ==
    [raised |-> raised, context |-> context, chunks |-> chunks, files |-> files,
     chosen |-> chosen, pushed |-> pushed, listCalls |-> ListCalls(env)]

retrieve_top_chunks(question, max_files, top_k, env) ==
    LET Return(files, pre, st2, top) ==
            IF st2.heap = <<>>
            THEN Retrieved(FALSE, <<>>, <<>>, files, pre.chosen, st2.pushed, env)
            ELSE Retrieved(FALSE, BuildContext(top, 0, <<>>), top, files, pre.chosen,
                           st2.pushed, env)
        Sorted(files, pre, st2, sorted) ==
            Return(files, pre, st2, [i \in DOMAIN sorted |-> sorted[i][3]])
        Ranked(files, pre, st2) ==
            Sorted(files, pre, st2, SortedHeap(Range(st2.heap)))
        Scored(files, qtok, pre, st1) ==
            Ranked(files, pre,
                   IF st1.heap = <<>>
                   THEN Fallback(st1, SubSeq(pre.chosen, 1, Min(5, Len(pre.chosen))),
                                 env, qtok, top_k)
                   ELSE st1)
        Chosen(files, qtok, pre) ==
            IF pre.err THEN Retrieved(TRUE, <<>>, <<>>, files, <<>>, <<>>, env)
            ELSE Scored(files, qtok, pre,
                        ReadChosen([heap |-> <<>>, tiebreak |-> 0, pushed |-> <<>>],
                                   pre.chosen, env, qtok, top_k))
        Listed(files, qtok) ==
            IF files = <<>> THEN Retrieved(FALSE, <<>>, <<>>, files, <<>>, <<>>, env)
            ELSE Chosen(files, qtok, Prefilter(files, qtok, max_files))
    IN  Listed(list_files(env), toks(question))

(***************************************************************************)
(* The outcomes of the external calls of one retrieve_top_chunks call.     *)
(***************************************************************************)
ListEnvs ==
    {[shared |-> Returns(L), folder |-> NotCalled] : L \in Listings \ {<<>>}}
    \cup {[shared |-> s, folder |-> f] :
            s \in {Raises, Returns(<<>>)},
            f \in {Raises} \cup {Returns(L) : L \in Listings}}

Ids(files) == {files[i].id : i \in DOMAIN files}

FileOf(id) == CHOOSE f \in DriveFiles : f.id = id

\* the most chunks one file of the store holds
MostChunks == CHOOSE n \in {Len(ReaderFor(f)) : f \in DriveFiles} :
                  \A f \in DriveFiles : Len(ReaderFor(f)) <= n

ReadEnvs(files) ==
    {r \in [Ids(files) -> 0 .. MostChunks] : \A id \in Ids(files) : r[id] \in ReadOutcomes(FileOf(id))}

YieldsNothing(files, reads) ==
    \A id \in Ids(files) : ReadFile(FileOf(id), reads[id]) = <<>>

\* the second read of the fallback happens only when the first reads yield
\* nothing; it yields a first chunk (1) or nothing (0)
AgainEnvs(files, reads) ==
    IF YieldsNothing(files, reads)
    THEN {a \in [Ids(files) -> 0 .. 1] : \A id \in Ids(files) : a[id] \in ReadOutcomes(FileOf(id))}
    ELSE {[id \in Ids(files) |-> 0]}

Envs ==
    UNION { UNION { { [shared |-> le.shared, folder |-> le.folder, reads |-> r, again |-> a]
                      : a \in AgainEnvs(list_files(le), r) }
                    : r \in ReadEnvs(list_files(le)) }
            : le \in ListEnvs }

(***************************************************************************)
(* Answer + single citation.                                               *)
(***************************************************************************)
REFUSAL ==
    <<"I cannot answer", " ",
      "this question as the information is not in the provided documents.">>

\* str.lower() on the tokens of a model answer
Lower(tok) ==
    CASE tok = "I cannot answer" -> "i cannot answer"
      [] tok = "I CANNOT ANSWER" -> "i cannot answer"
      [] tok = "The" -> "the"
      [] tok = "Sorry," -> "sorry,"
      [] OTHER -> tok

\* startswith without lower()
StartsWithCannotAnswerCased(text) == text # <<>> /\ text[1] = "i cannot answer"

\* text.lower().startswith("i cannot answer")
StartsWithCannotAnswer(text) == text # <<>> /\ Lower(text[1]) = "i cannot answer"

\* what gemini.generate_content does: it raises, or returns a response
\* whose text attribute is missing or None (text = <<>>) or a text
GeminiRaises == [called |-> TRUE, raises |-> TRUE, text |-> <<>>]
GeminiReturns(text) == [called |-> TRUE, raises |-> FALSE, text |-> text]
GeminiNotCalled == [called |-> FALSE, raises |-> FALSE, text |-> <<>>]

GeminiOutcomes ==
    {GeminiRaises}
    \cup {GeminiReturns(t) :
            t \in { <<>>,
                    <<" ", "\n">>,
                    REFUSAL,
                    <<NBSP, "I CANNOT ANSWER", " ", "that.">>,
                    <<"The", " ", "\n", "15th.", NBSP>>,
                    <<"Sorry,", " ", "I cannot answer">> }}

citation_for(ch) ==
    CASE ch.mime = "pdf" ->
           [name |-> ch.file_name, link |-> ch.link, where |-> "on page", at |-> ch.meta.val]
      [] ch.mime = "gdoc" ->
           [name |-> ch.file_name, link |-> ch.link, where |-> "in section",
            at |-> IF ch.meta.key = "section" THEN ch.meta.val ELSE "General"]
      [] ch.mime = "gsheet" ->
           [name |-> ch.file_name, link |-> ch.link, where |-> "in data block",
            at |-> ch.meta.val]
      [] OTHER ->
           [name |-> ch.file_name, link |-> ch.link, where |-> "", at |-> ""]

\* a reply is the string f"{text} {citation}": its text and the citations
\* that follow it
Reply(text, cites) == [text |-> text, cites |-> cites]

RefusalReply == Reply(REFUSAL, <<>>)

\* no reply: answer() has not returned
NoReply == Reply(<<>>, <<>>)

\* the outcome of a call of answer(), with its history: the model call
\* made, the scores of the chunks pushed, the listing calls
Answered(raised, reply, r, gem, modelCalls) ==
    [raised |-> raised, reply |-> reply, gem |-> gem, modelCalls |-> modelCalls,
     context |-> r.context, chunks |-> r.chunks,
     pushed |-> r.pushed, listCalls |-> r.listCalls]

\* answer() without the try block around the call of the model
AnswerFromUncaught(user_q, r, gem) ==
    IF r.raised THEN Answered(TRUE, NoReply, r, GeminiNotCalled, 0)
    ELSE IF r.context = <<>> \/ r.chunks = <<>>
         THEN Answered(FALSE, RefusalReply, r, GeminiNotCalled, 0)
    ELSE IF gem.raises THEN Answered(TRUE, NoReply, r, gem, 1)
    ELSE LET text == norm(gem.text)
         IN  IF text = <<>> \/ StartsWithCannotAnswer(text)
             THEN Answered(FALSE, RefusalReply, r, gem, 1)
             ELSE Answered(FALSE, Reply(text, <<citation_for(r.chunks[1])>>), r, gem, 1)

\* answer() from the return of retrieve_top_chunks on; gem is the outcome of
\* the call of the model, if it is made
AnswerFrom(user_q, r, gem) ==
    IF r.raised THEN Answered(TRUE, NoReply, r, GeminiNotCalled, 0)
    ELSE IF r.context = <<>> \/ r.chunks = <<>>
         THEN Answered(FALSE, RefusalReply, r, GeminiNotCalled, 0)
    ELSE IF gem.raises THEN Answered(FALSE, RefusalReply, r, gem, 1)
    ELSE LET text == norm(gem.text)
         IN  IF text = <<>> \/ StartsWithCannotAnswer(text)
             THEN Answered(FALSE, RefusalReply, r, gem, 1)
             ELSE Answered(FALSE, Reply(text, <<citation_for(r.chunks[1])>>), r, gem, 1)

ANSWER_MAX_FILES == 200
ANSWER_TOP_K == 3

answer(user_q, env, gem) ==
    CHOOSE a \in {AnswerFrom(user_q, r, gem)
                    : r \in {retrieve_top_chunks(user_q, ANSWER_MAX_FILES, ANSWER_TOP_K, env)}}
             : TRUE

(***************************************************************************)
(* Slack events.                                                           *)
(***************************************************************************)
RawClaims == <<"<@U1>", " ", "When", " ", "is", " ", "the", " ", "claims", " ", "deadline?">>
RawFrance == <<"<@U1>", " ", "What", " ", "is", " ", "the", " ", "capital", " ", "of", " ",
               "France?">>
RawMentionOnly == <<" ", "<@U1>", " ">>

\* q = re.sub(r"<@[^>]+>", "", raw_text).strip()
NotMention(tok) == ~IsMention(tok)
StripMention(raw_text) == Strip(SelectSeq(raw_text, NotMention))

Events == {"Ev1", "Ev2"}

TextOf(ev) == IF ev = "Ev1" THEN RawClaims ELSE RawMentionOnly

ChannelOf(ev) == IF ev = "Ev1" THEN "C1" ELSE "C2"

\* a request: the JSON body (challenge and event, "none" when the key is
\* missing) and the X-Slack-Retry-Num header ("absent" when not sent)
Request(challenge, retry, type, ev) ==
    [challenge |-> challenge, retry |-> retry, type |-> type, ev |-> ev]

RetryHeaders == {"absent", "", "1"}

Requests ==
    {Request("none", h, "app_mention", e) : h \in RetryHeaders, e \in Events}
    \cup {Request(c, "absent", "none", "none") : c \in {"tokA", "tokB"}}
    \cup {Request("tokA", h, "app_mention", "Ev1") : h \in {"absent", "1"}}
    \cup {Request("none", h, "message", "Ev1") : h \in {"absent", "1"}}
    \cup {Request("none", "absent", "none", "none")}

NoRequest == Request("none", "absent", "none", "none")

NoResponse == [status |-> 0, challenge |-> "none"]
Response200 == [status |-> 200, challenge |-> "none"]
\* jsonify({"challenge": data["challenge"]})
ChallengeResponse(c) == [status |-> 200, challenge |-> c]

\* request.headers.get("X-Slack-Retry-Num") is truthy
HasRetryNum(req) == req.retry \notin {"absent", ""}

\* the response slack_events returns
slack_events_response(req) ==
    IF req.challenge # "none" THEN ChallengeResponse(req.challenge)
    ELSE Response200

\* slack_events without the check of the retry header
slack_events_starts_retried(req) ==
    /\ req.challenge = "none"
    /\ req.type = "app_mention"

\* slack_events reading the event before the challenge
slack_events_starts_challenged(req) ==
    /\ ~HasRetryNum(req)
    /\ req.type = "app_mention"

\* whether slack_events starts a handle_mention thread
slack_events_starts(req) ==
    /\ req.challenge = "none"
    /\ ~HasRetryNum(req)
    /\ req.type = "app_mention"

\* a handle_mention thread: its position, its arguments, the value of
\* answer(q) once it returned, the calls of chat_postMessage it made, the
\* error of that call, the exception that ended the thread, and the listing
\* calls it made
Thread(pc, ev, reply, posted, postErr, exc, listCalls) ==
    [pc |-> pc, ev |-> ev, channel |-> ChannelOf(ev), raw_text |-> TextOf(ev),
     reply |-> reply, posted |-> posted, postErr |-> postErr, exc |-> exc,
     listCalls |-> listCalls]

\* the questions asked
Questions == {StripMention(RawClaims), StripMention(RawFrance)}

\* every outcome of answer(q): one per outcome of its external calls
AnswerOutcomes ==
    [q \in Questions |->
        UNION { {AnswerFrom(q, r, gem) : gem \in GeminiOutcomes}
                : r \in {retrieve_top_chunks(q, ANSWER_MAX_FILES, ANSWER_TOP_K, env)
                           : env \in Envs} }]

\* what handle_mention sees of a call of answer(q): the reply or the
\* exception, and the listing calls made meanwhile
AnswerReturns ==
    [q \in Questions |->
        {[raised |-> a.raised, reply |-> a.reply, listCalls |-> a.listCalls]
           : a \in AnswerOutcomes[q]}]

\* how handle_mention ends after its call of chat_postMessage: the call
\* returns, raises SlackApiError (the handler's print(f(...)) then raises
\* NameError, f being undefined), or raises another error, not caught
AfterPost(outcome) ==
    CASE outcome = "ok" -> [pc |-> "done", exc |-> "none"]
      [] outcome = "SlackApiError" -> [pc |-> "raised", exc |-> "NameError"]
      [] OTHER -> [pc |-> "raised", exc |-> outcome]

PostOutcomes == {"ok", "SlackApiError", "URLError"}

\* the environment's view of a delivery: an app_mention event sent for the
\* first time carries no retry number
IsOriginal(req) ==
    req.challenge = "none" /\ req.type = "app_mention" /\ req.retry \in {"absent", ""}

RkIdle == [phase |-> "idle"]

Init ==
    /\ response = NoResponse
    /\ lastReq = NoRequest
    /\ lastStarted = 0
    /\ threads = <<>>
    /\ orig = [e \in Events |-> 0]
    /\ rk = RkIdle

\* POST /slack/events
slack_events(req) ==
    /\ slack_events_starts(req) => Len(threads) < MaxThreads
    /\ IsOriginal(req) => orig[req.ev] < MaxThreads
    /\ response' = slack_events_response(req)
    /\ lastReq' = req
    /\ IF slack_events_starts(req)
       THEN /\ threads' = Append(threads, Thread("start", req.ev, NoReply, 0, "none", "none", 0))
            /\ lastStarted' = Len(threads) + 1
       ELSE /\ threads' = threads
            /\ lastStarted' = 0
    /\ orig' = IF IsOriginal(req) THEN [orig EXCEPT ![req.ev] = @ + 1] ELSE orig
    /\ UNCHANGED rk

\* handle_mention up to the return of answer(q)
handle_mention_answer(t) ==
    /\ threads[t].pc = "start"
    /\ LET th == threads[t]
           q == StripMention(th.raw_text)
       IN  IF q = <<>>
           THEN threads' = [threads EXCEPT ![t] = Thread("done", th.ev, NoReply, 0, "none", "none", 0)]
           ELSE \E a \in AnswerReturns[q] :
                  threads' = [threads EXCEPT ![t] =
                      IF a.raised
                      THEN Thread("raised", th.ev, NoReply, 0, "none", "TypeError", a.listCalls)
                      ELSE Thread("post", th.ev, a.reply, 0, "none", "none", a.listCalls)]
    /\ UNCHANGED <<response, lastReq, lastStarted, orig, rk>>

\* handle_mention_post reporting a failed send in the HTTP response
handle_mention_post_reports(t) ==
    /\ threads[t].pc = "post"
    /\ \E outcome \in PostOutcomes :
         LET th == threads[t]
             end == AfterPost(outcome)
         IN  /\ threads' = [threads EXCEPT ![t] =
                   Thread(end.pc, th.ev, NoReply, th.posted + 1,
                          IF outcome = "ok" THEN "none" ELSE outcome, end.exc, th.listCalls)]
             /\ response' = IF outcome = "ok" THEN response
                            ELSE [status |-> 500, challenge |-> "none"]
    /\ UNCHANGED <<lastReq, lastStarted, orig, rk>>

\* handle_mention from slack.chat_postMessage on
handle_mention_post(t) ==
    /\ threads[t].pc = "post"
    /\ \E outcome \in PostOutcomes :
         LET th == threads[t]
             end == AfterPost(outcome)
         IN  threads' = [threads EXCEPT ![t] =
                 Thread(end.pc, th.ev, NoReply, th.posted + 1,
                        IF outcome = "ok" THEN "none" ELSE outcome, end.exc, th.listCalls)]
    /\ UNCHANGED <<response, lastReq, lastStarted, orig, rk>>

Next ==
    \/ \E req \in Requests : slack_events(req)
    \/ \E t \in DOMAIN threads : handle_mention_answer(t)
    \/ \E t \in DOMAIN threads : handle_mention_post(t)

Spec == Init /\ [][Next]_vars

\* a started thread runs: threading.Thread(...).start() hands handle_mention
\* to the scheduler, which lets every thread take its steps
ThreadsRun ==
    \A t \in 1 .. MaxThreads :
       /\ WF_vars(t \in DOMAIN threads /\ handle_mention_answer(t))
       /\ WF_vars(t \in DOMAIN threads /\ handle_mention_post(t))

SpecLive == Spec /\ ThreadsRun

(***************************************************************************)
(* A direct call of retrieve_top_chunks, with arguments drawn from the     *)
(* sets below.                                                             *)
(***************************************************************************)
MaxFilesArgs == {1, ANSWER_MAX_FILES}

RkArgs(q, m, k) == [phase |-> "args", question |-> q, max_files |-> m, top_k |-> k]

RkReturned(args, env) ==
    [phase |-> "returned", question |-> args.question, max_files |-> args.max_files,
     top_k |-> args.top_k, env |-> env,
     r |-> retrieve_top_chunks(args.question, args.max_files, args.top_k, env)]

InitRank ==
    /\ response = NoResponse
    /\ lastReq = NoRequest
    /\ lastStarted = 0
    /\ threads = <<>>
    /\ orig = [e \in Events |-> 0]
    /\ rk \in {RkArgs(q, m, k) : q \in Questions, m \in MaxFilesArgs, k \in 1 .. MaxTopK}

RankCall ==
    /\ rk.phase = "args"
    /\ \E env \in Envs : rk' = RkReturned(rk, env)
    /\ UNCHANGED <<response, lastReq, lastStarted, threads, orig>>

NextRank == RankCall

SpecRank == InitRank /\ [][NextRank]_vars

(***************************************************************************)
(* A direct call of answer().                                              *)
(***************************************************************************)
RkAnswered(q, env, a) == [phase |-> "answered", question |-> q, env |-> env, a |-> a]

InitAnswer ==
    /\ response = NoResponse
    /\ lastReq = NoRequest
    /\ lastStarted = 0
    /\ threads = <<>>
    /\ orig = [e \in Events |-> 0]
    /\ rk \in {RkArgs(q, ANSWER_MAX_FILES, ANSWER_TOP_K) : q \in Questions}

\* the outcomes of the model call that a run of answer(q) can meet in env:
\* the model is called only when retrieval returned a context
GeminiFor(q, env) ==
    UNION { IF ~r.raised /\ r.context # <<>> /\ r.chunks # <<>>
            THEN GeminiOutcomes ELSE {GeminiNotCalled}
            : r \in {retrieve_top_chunks(q, ANSWER_MAX_FILES, ANSWER_TOP_K, env)} }

\* every run of answer(q): the environment it met and what it returned
AnswerRuns ==
    [q \in Questions |->
        UNION { {[env |-> env, a |-> answer(q, env, gem)] : gem \in GeminiFor(q, env)}
                : env \in Envs }]

AnswerCall ==
    /\ rk.phase = "args"
    /\ \E run \in AnswerRuns[rk.question] :
         rk' = RkAnswered(rk.question, run.env, run.a)
    /\ UNCHANGED <<response, lastReq, lastStarted, threads, orig>>

NextAnswer == AnswerCall

SpecAnswer == InitAnswer /\ [][NextAnswer]_vars

(***************************************************************************)
(* Properties.                                                             *)
(***************************************************************************)
RECURSIVE SumPosted(_, _)
SumPosted(ths, ev) ==
    IF ths = <<>> THEN 0
    ELSE (IF Head(ths).ev = ev THEN Head(ths).posted ELSE 0) + SumPosted(Tail(ths), ev)

\* calls of chat_postMessage made for an event
Posts(ev) == SumPosted(threads, ev)

\* C1: a request with a non-empty X-Slack-Retry-Num header and no challenge
\* gets HTTP 200 and starts no handle_mention thread; an event delivered once
\* without the header, and any number of times with it, has chat_postMessage
\* called at most once.
C1_RetriesDropped ==
    /\ (lastReq.challenge = "none" /\ lastReq.retry \notin {"absent", ""})
          => (response = Response200 /\ lastStarted = 0)
    /\ \A e \in Events : orig[e] <= 1 => Posts(e) <= 1

C1_Witness ==
    /\ lastReq = Request("none", "1", "app_mention", "Ev1")
    /\ response = Response200
    /\ lastStarted = 0
    /\ orig["Ev1"] = 1
    /\ Posts("Ev1") = 1

\* C2: the response to an app_mention event is HTTP 200 and is produced
\* while the thread it starts has not run; no later step of a thread,
\* whatever its outcome, changes the response.
C2_AckIndependentOfTask ==
    [][ /\ \A req \in Requests :
             (slack_events(req) /\ req.challenge = "none" /\ req.type = "app_mention")
                => /\ response' = Response200
                   /\ lastStarted' # 0 => threads'[lastStarted'].pc = "start"
        /\ (lastReq' = lastReq /\ lastStarted' = lastStarted /\ threads' # threads)
             => response' = response ]_vars

C2_Witness ==
    /\ lastReq.type = "app_mention"
    /\ lastStarted # 0
    /\ threads[lastStarted].pc = "raised"
    /\ response = Response200

\* the overlap score push gives a chunk
Score(question, ch) == overlap(toks(question), ch.text)

NoOverlap(question, chs) == \A i \in DOMAIN chs : Score(question, chs[i]) = 0

\* the model's answer makes answer() refuse
Refuses(gem) ==
    \/ gem.raises
    \/ norm(gem.text) = <<>>
    \/ Lower(norm(gem.text)[1]) = "i cannot answer"

C4_OneChunkPerSource ==
    rk.phase = "returned"
       => \A i, j \in DOMAIN rk.r.chunks :
             i # j => rk.r.chunks[i].file_name # rk.r.chunks[j].file_name

\* C5: retrieve_top_chunks returns at most top_k chunks, in descending order
\* of overlap score, and no chunk left out has a strictly higher score than
\* a chunk returned.
C5_TopKByScore ==
    (rk.phase = "returned" /\ ~rk.r.raised)
       => LET top == rk.r.chunks
              q == rk.question
          IN  /\ Len(top) = Min(rk.top_k, Len(rk.r.pushed))
              /\ Range(top) \subseteq Range(rk.r.pushed)
              /\ \A i, j \in DOMAIN top : i < j => Score(q, top[i]) >= Score(q, top[j])
              /\ \A out \in Range(rk.r.pushed) \ Range(top) :
                    \A kept \in Range(top) : Score(q, out) <= Score(q, kept)

C5_Witness ==
    /\ rk.phase = "returned"
    /\ ~rk.r.raised
    /\ Len(rk.r.pushed) > rk.top_k
    /\ Len(rk.r.chunks) = rk.top_k
    /\ rk.r.pushed[1] \notin Range(rk.r.chunks)
    /\ \E i \in DOMAIN rk.r.pushed :
          i > rk.top_k /\ rk.r.pushed[i] \in Range(rk.r.chunks)

\* C6: the reply of answer() is the refusal sentence with no citation when
\* the context is empty, the model raised, its text is empty or starts with
\* 'i cannot answer' in any case; otherwise it is the model's normalized
\* text followed by exactly one citation, that of the first-ranked chunk.
C6_ReplyShapes ==
    (rk.phase = "answered" /\ ~rk.a.raised)
       => LET a == rk.a
              refuse == a.context = <<>> \/ a.chunks = <<>> \/ Refuses(a.gem)
          IN  /\ refuse => a.reply = RefusalReply
              /\ ~refuse => /\ a.reply.text = norm(a.gem.text)
                            /\ a.reply.cites = <<citation_for(a.chunks[1])>>
                            /\ a.reply # RefusalReply

C6_Witness ==
    /\ rk.phase = "answered"
    /\ ~rk.a.raised
    /\ Len(rk.a.chunks) > 1
    /\ rk.a.gem.text # norm(rk.a.gem.text)
    /\ rk.a.reply.text = norm(rk.a.gem.text)
    /\ rk.a.reply.cites = <<citation_for(rk.a.chunks[1])>>

\* C7: when the call of the model raises, answer() returns the refusal
\* sentence and raises nothing; the model is called at most once.
C7_ModelErrorRefuses ==
    rk.phase = "answered"
       => /\ rk.a.modelCalls <= 1
          /\ rk.a.gem.raises => (~rk.a.raised /\ rk.a.reply = RefusalReply
                                  /\ rk.a.modelCalls = 1)

C7_Witness ==
    /\ rk.phase = "answered"
    /\ rk.a.gem.raises
    /\ rk.a.modelCalls = 1
    /\ rk.a.reply = RefusalReply

\* the chunks the reader of a chosen file yielded in the loop over chosen
Yielded(f) == ReadFile(f, rk.env.reads[f.id])

\* two files of the listing whose names score the same against the query
TiedNames(question, files) ==
    \E i, j \in DOMAIN files :
       i # j /\ overlap(toks(question), files[i].name) = overlap(toks(question), files[j].name)

\* C8 as stated: a reader whose retrieval or parsing fails yields an empty
\* sequence.
C8_FailedReadYieldsNothing ==
    rk.phase = "returned"
       => \A i \in DOMAIN rk.r.chosen :
             ReadFailed(rk.r.chosen[i], rk.env.reads[rk.r.chosen[i].id])
                => Yielded(rk.r.chosen[i]) = <<>>

\* C8 amended: a reader never raises; when its retrieval or parsing fails it
\* ends, having yielded only the chunks it produced before the failure, and
\* retrieve_top_chunks scores these and the chunks of every other chosen
\* file: a failed read never aborts the request.
C8_FailedReadTolerated ==
    rk.phase = "returned"
       => /\ rk.r.raised => TiedNames(rk.question, rk.r.files)
          /\ ~rk.r.raised =>
                /\ Len(rk.r.chosen) = Min(rk.max_files, Len(rk.r.files))
                /\ \A i \in DOMAIN rk.r.chosen :
                      Range(Yielded(rk.r.chosen[i])) \subseteq Range(rk.r.pushed)

C8_Witness ==
    /\ rk.phase = "returned"
    /\ ~rk.r.raised
    /\ Len(rk.r.chosen) = 2
    /\ ReadFailed(rk.r.chosen[1], rk.env.reads[rk.r.chosen[1].id])
    /\ Yielded(rk.r.chosen[1]) = <<>>
    /\ Yielded(rk.r.chosen[2]) # <<>>
    /\ Range(Yielded(rk.r.chosen[2])) \subseteq Range(rk.r.chunks)

\* a thread whose call of answer(q) has ended
HasAnswered(t) == threads[t].pc # "start" /\ StripMention(threads[t].raw_text) # <<>>

RECURSIVE SumListCalls(_)
SumListCalls(ths) ==
    IF ths = <<>> THEN 0 ELSE Head(ths).listCalls + SumListCalls(Tail(ths))

\* C9 as stated: two questions answered one after the other cause exactly
\* one listing call to the document store.
C9_CacheIdempotence ==
    Cardinality({t \in DOMAIN threads : HasAnswered(t)}) >= 2
       => SumListCalls(threads) = 1

\* C10 as stated: when chat_postMessage raises SlackApiError, handle_mention
\* returns normally, no exception escapes and no second send is made.
C10_PostErrorLogged ==
    \A t \in DOMAIN threads :
       threads[t].postErr = "SlackApiError"
          => /\ threads[t].pc = "done"
             /\ threads[t].exc = "none"
             /\ threads[t].posted = 1

RECURSIVE SumPartLen(_)
\* the summed length of the parts of a sequence of chunks
SumPartLen(chs) ==
    IF chs = <<>> THEN 0 ELSE PartLen(Head(chs)) + SumPartLen(Tail(chs))

\* C11: the context is made of the parts of a prefix of the ranked chunks, in
\* rank order; the summed length of its parts is at most 8000; the prefix
\* ends at the first chunk whose part would take the total past 8000, and
\* that chunk and every chunk ranked after it are left out.
C11_ContextIsCappedPrefix ==
    (rk.phase = "returned" /\ ~rk.r.raised)
       => LET top == rk.r.chunks
              n == Len(rk.r.context)
          IN  /\ n <= Len(top)
              /\ rk.r.context = SubSeq(top, 1, n)
              /\ SumPartLen(rk.r.context) <= CONTEXT_CAP
              /\ n < Len(top) => SumPartLen(rk.r.context) + PartLen(top[n + 1]) > CONTEXT_CAP

C11_Witness ==
    /\ rk.phase = "returned"
    /\ ~rk.r.raised
    /\ Len(rk.r.chunks) = 3
    /\ Len(rk.r.context) = 2
    /\ PartLen(rk.r.chunks[3]) <= CONTEXT_CAP
    /\ SumPartLen(rk.r.context) + PartLen(rk.r.chunks[3]) > CONTEXT_CAP

\* C12: a request whose payload has a challenge field is answered with that
\* same challenge value and starts no handle_mention thread, whatever event
\* and retry header it carries.
C12_ChallengeEchoed ==
    [][ \A req \in Requests :
           (slack_events(req) /\ req.challenge # "none")
              => /\ response' = ChallengeResponse(req.challenge)
                 /\ threads' = threads
                 /\ lastStarted' = 0 ]_vars

C12_Witness ==
    /\ lastReq = Request("tokA", "absent", "app_mention", "Ev1")
    /\ response = ChallengeResponse("tokA")
    /\ lastStarted = 0
    /\ orig["Ev1"] = 0
    /\ \A t \in DOMAIN threads : threads[t].ev # "Ev1"

\* C13 as stated: every thread started for an app_mention event delivered
\* without a retry header, whose text is not empty once the mention markup
\* is stripped, eventually calls chat_postMessage, and calls it exactly once,
\* whatever listing the document store returned: the prefilter raises
\* nothing.
C13_EventuallyPostsOnce ==
    \A t \in 1 .. MaxThreads :
       [](( /\ t \in DOMAIN threads
            /\ StripMention(threads[t].raw_text) # <<>> )
             => /\ threads[t].posted <= 1
                /\ threads[t].exc # "TypeError"
                /\ <>(t \in DOMAIN threads /\ threads[t].posted = 1))

====
